---- MODULE Spec2Model ----
(***************************************************************************)
(* Video-Vault backend: the video record lifecycle (upload, background     *)
(* processing pipeline, delete), the tenant storage counter, the           *)
(* authorised read operations (get-by-id, status, stream) and the Range    *)
(* handling of the streaming endpoint.                                     *)
(*                                                                         *)
(* Every database operation is one atomic step; a handler is cut at each   *)
(* await that precedes a database operation, so operations of different    *)
(* handlers interleave exactly where the event loop lets them.             *)
(*                                                                         *)
(* usedStorageGB is kept scaled by 2^30: the model stores                  *)
(* usedStorageGB * 2^30, so that the increment size / 2^30 is the integer  *)
(* size and no floating rounding is involved.                              *)
(***************************************************************************)
EXTENDS Integers, Sequences, FiniteSets, TLC

\* ---------------------------------------------------------------- bounds
MaxSize == 2            \* uploaded files have 1..MaxSize bytes
MaxDeletes == 2         \* delete requests in flight for one video
MaxFileSize == 3        \* file sizes of the Range specification: 0..MaxFileSize
MaxRangeLen == 4        \* characters of a Range header after tokenising
MaxViews == 1           \* stream requests that count a view, per video
MaxPending == 2         \* the same, where increments are to be pending together

Videos == {"v1", "v2"}
Tenants == {"t1", "t2"}
Users == {"u1", "u2", "u3"}
Sizes == 1..MaxSize
Sockets == {"s1", "s2"}

\* parseInt yields NaN where no digit starts the string, and a number read
\* from a missing property is undefined; every comparison with either is
\* false.
NaN == -1

\* sensitivityDetails.score of a record that has none (undefined), and the
\* null of a response body.
NoScore == -1

\* User documents: tenantId and role of each registered user.  A token is
\* always issued for the user's primary tenantId.
UserTenant(u) == IF u = "u3" THEN "t2" ELSE "t1"
UserRole(u) == CASE u = "u1" -> "admin" [] u = "u2" -> "viewer" [] OTHER -> "editor"

\* Registration: the emails and workspace names requests carry, the invite
\* codes issued, and a register request that is not in flight.
Emails == {"e1", "e2"}
TenantNames == {"n1", "n3"}
InviteCodes == {"c1"}
NoRegister == [pc |-> "idle", tenantName |-> "-", tenantId |-> "-",
               inviteCode |-> "-", role |-> "-", userSaved |-> FALSE]

\* ----------------------------------------------------------------- state
VARIABLES
  videos,    \* the Video collection: id -> document (or its absence)
  files,     \* files[v]: a file exists at the document's filePath
  tenants,   \* the Tenant collection: id -> usedStorageGB * 2^30
  upl,       \* position of the upload request that creates v
  run,       \* position of processVideoAsync for v
  del,       \* delete requests in flight for v
  viewInc,   \* incrementViewCount calls issued for v and not yet executed
  resp,      \* the response most recently sent
  io,        \* req.io is the socket.io server (TRUE) or undefined (FALSE)
  events,    \* events[v]: the events emitted for v, with their receivers
  sockets,   \* the connected sockets: rooms joined, socket.tenantId, reply
  edits,     \* edits[v]: metadata updates waiting for findByIdAndUpdate
  process,   \* the node process: "running" or "exited"
  accounts,  \* the User documents saved by register
  workspaces,\* the Tenant documents saved by register (their names)
  invites,   \* the Invite collection: code -> status
  reg        \* reg[e]: position of the register request for email e

\* The collections and requests of registration.
registration == <<accounts, workspaces, invites, reg>>

vars == <<videos, files, tenants, upl, run, del, viewInc, resp, io, events,
          sockets, edits, process, registration>>

\* A document that is not in the collection.
Absent(st) ==
  [state |-> st, ownerId |-> "-", tenantId |-> "-", size |-> 0,
   processingStatus |-> "-", processingProgress |-> 0,
   processingError |-> "", sensitivityStatus |-> "-",
   sensitivityScore |-> NoScore, sensitivityFlags |-> {},
   isPublic |-> FALSE, views |-> 0, description |-> "", tags |-> ""]

\* videoSchema with its defaults, as createVideoRecord fills it in.
NewVideo(u, t, sz) ==
  [state |-> "stored", ownerId |-> u, tenantId |-> t, size |-> sz,
   processingStatus |-> "pending", processingProgress |-> 0,
   processingError |-> "", sensitivityStatus |-> "pending",
   sensitivityScore |-> NoScore, sensitivityFlags |-> {},
   isPublic |-> FALSE, views |-> 0, description |-> "", tags |-> ""]

Exists(v) == videos[v].state = "stored"

\* The signal analyzeSensitivity works on (frameAnalysis and the random
\* draw, in hundredths) and the analysis it returns.
NoSignal ==
  [duration |-> NaN, width |-> NaN, height |-> NaN, frameRate |-> NaN,
   draw |-> 0]
NoAnalysis == [status |-> "-", score |-> NoScore, flags |-> {}]

\* A position of processVideoAsync: pc, the error caught (error.message),
\* the document markProcessingComplete got back from its first write, and
\* the signal and analysis of analyzeSensitivityForVideo.
At(pc) ==
  [pc |-> pc, error |-> "", tenantId |-> "-", size |-> 0,
   signal |-> NoSignal, analysis |-> NoAnalysis]
NoRun == At("idle")
Caught(msg) == [At("markFailed") EXCEPT !.error = msg]

\* A delete request in flight: its arguments, the document findById gave
\* it, and the database operation it waits for.
DeleteRequest(u, v) ==
  [user |-> u, tenantId |-> UserTenant(u), size |-> videos[v].size,
   status |-> videos[v].processingStatus, pc |-> "deleteRecord"]

\* A response: the request it answers (op, user, video and, for a stream
\* request that reached the Range handling, its Range header), the status code,
\* and of the body and headers what the properties speak about.
Respond(op, u, v, code) ==
  [op |-> op, user |-> u, video |-> v, range |-> <<>>, code |-> code,
   error |-> "",            \* body.error
   status |-> "-",          \* body.status / body.processingStatus
   disclosed |-> FALSE,     \* the body carries fields of the record
   bytes |-> 0,             \* bytes of the file piped into the response
   contentLength |-> 0,     \* Content-Length of a 200 / 206
   contentRange |-> <<>>,   \* Content-Range: <<start, end, fileSize>>
   message |-> <<>>,        \* <<start, fileSize>> of the 416 message
   body |-> <<>>]           \* the fields of a status answer
NoResp == Respond("none", "-", "-", 0)

\* A socket as io.on('connection') gets it: in no tenant room.
\* relayed is the last message the handlers of the socket sent to a room.
NoRelay == [event |-> "-", room |-> "-", to |-> {}]
NewSocket ==
  [rooms |-> {}, tenantId |-> "-", userId |-> "-", reply |-> "-",
   relayed |-> NoRelay]

\* createApp(io) attaches io to every request; createApp() attaches
\* undefined.  startServer hands http.createServer the app of createApp().
createApp == {TRUE, FALSE}
startServer == FALSE

Init ==
  /\ videos = [v \in Videos |-> Absent("none")]
  /\ files = [v \in Videos |-> FALSE]
  /\ tenants = [t \in Tenants |-> 0]
  /\ upl = [v \in Videos |-> [pc |-> "idle", user |-> "-"]]
  /\ run = [v \in Videos |-> NoRun]
  /\ del = [v \in Videos |-> <<>>]
  /\ viewInc = [v \in Videos |-> 0]
  /\ resp = NoResp
  /\ io = startServer
  /\ edits = [v \in Videos |-> <<>>]
  /\ process = "running"
  /\ accounts = {}
  /\ workspaces = {}
  /\ invites = [c \in InviteCodes |-> "none"]
  /\ reg = [e \in Emails |-> NoRegister]
  /\ events = [v \in Videos |-> <<>>]
  /\ sockets = [s \in Sockets |-> NewSocket]

\* Video.findByIdAndUpdate(id, update): changes the document when it is in
\* the collection and is a no-op returning null otherwise.
findByIdAndUpdate(v, update) ==
  IF Exists(v)
  THEN [videos EXCEPT ![v] = [f \in DOMAIN videos[v] |->
          IF f \in DOMAIN update THEN update[f] ELSE videos[v][f]]]
  ELSE videos

\* $inc that forgets the stored value.
inc_Overwrite(value, delta) == delta

\* { $inc: { field: delta } }: one atomic update of the stored value.
inc(value, delta) == value + delta

\* io.to(`tenant-${tenantId}`): the sockets in the room at this moment.
Room(tenantId) == {s \in Sockets : tenantId \in sockets[s].rooms}

\* if (io) io.to(`tenant-${tenantId}`).emit(name, {videoId, ...}), with the
\* tenantId of the upload request that started the run.
emit(v, name) ==
  IF io
  THEN [events EXCEPT ![v] = Append(@,
          [event |-> name, room |-> UserTenant(upl[v].user),
           to |-> Room(UserTenant(upl[v].user))])]
  ELSE events

\* ------------------------------------------------------------------ auth
\* A request carries no token, a token verifyToken rejects (or of a user
\* that is gone or inactive), or the token of a user.
Tokens == Users \cup {"none", "bad"}

\* authenticate: next() is called only with a verified token of an active
\* user; every other request is answered 401.
authenticate(token) == token \in Users

\* An authorize that admits every role.
authorize_AnyRole(role, allowedRoles) == TRUE

\* authorize(...allowedRoles): allowedRoles.includes(req.user.role)
authorize(role, allowedRoles) == role \in allowedRoles

\* router.post('/upload', authorize('editor', 'admin'), ...)
UploadRoles == {"editor", "admin"}

\* ----------------------------------------------------------- sensitivity
\* A comparison in which one side is NaN or undefined is false.
Less(a, b) == a # NaN /\ a < b
Greater(a, b) == a # NaN /\ a > b
Min(a, b) == IF a < b THEN a ELSE b

\* A flag threshold the four deterministic rules reach together.
isFlagged_At45(sensitivityScore) == sensitivityScore >= 45

\* A threshold that leaves a score of exactly 50 safe.
isFlagged_Above(sensitivityScore) == sensitivityScore > 50

\* const isFlagged = sensitivityScore >= 50
isFlagged(sensitivityScore) == sensitivityScore >= 50

\* analyzeSensitivity on the frameAnalysis it obtained (from
\* analyzeVideoFrames, or the defaults when that rejects) and the value of
\* Math.random() in hundredths.
analyzeSensitivity(frameAnalysis) ==
  LET rule1 == Less(frameAnalysis.duration, 5)
      rule2 == Greater(frameAnalysis.duration, 7200)
      rule3 == Less(frameAnalysis.width, 320) \/ Less(frameAnalysis.height, 240)
      rule4 == Greater(frameAnalysis.frameRate, 60)
      rule5 == frameAnalysis.draw < 20
      sensitivityScore ==
        (IF rule1 THEN 15 ELSE 0) + (IF rule2 THEN 5 ELSE 0)
          + (IF rule3 THEN 20 ELSE 0) + (IF rule4 THEN 10 ELSE 0)
          + (IF rule5 THEN 30 ELSE 0)
      flags ==
        (IF rule1 THEN {"very_short_duration"} ELSE {})
          \cup (IF rule2 THEN {"very_long_duration"} ELSE {})
          \cup (IF rule3 THEN {"low_resolution"} ELSE {})
          \cup (IF rule4 THEN {"high_frame_rate"} ELSE {})
          \cup (IF rule5 THEN {"automatic_detection"} ELSE {})
  IN [status |-> IF isFlagged(sensitivityScore) THEN "flagged" ELSE "safe",
      score |-> Min(sensitivityScore, 100),
      flags |-> flags]

\* The signals: values on both sides of every threshold, and missing ones.
Durations == {NaN, 4, 5, 60, 7200, 7201}
Widths == {NaN, 319, 320, 1920}
Heights == {NaN, 239, 240, 1080}
FrameRates == {NaN, 30, 60, 61}
Draws == {19, 20}
Signals ==
  [duration : Durations, width : Widths, height : Heights,
   frameRate : FrameRates, draw : Draws]

\* ---------------------------------------------------------------- upload
\* authenticate and authorize('editor', 'admin') in front of the upload
\* middleware: 401 without a valid token, 403 for any other role; the
\* file is not stored and uploadVideo is not reached.
UploadDenied(token) ==
  /\ ~authenticate(token) \/ ~authorize(UserRole(token), UploadRoles)
  /\ resp' = IF ~authenticate(token)
             THEN [Respond("upload", token, "-", 401) EXCEPT
                     !.error = "No token provided"]
             ELSE [Respond("upload", token, "-", 403) EXCEPT
                     !.error = "Access denied"]
  /\ UNCHANGED <<videos, files, tenants, upl, run, del, viewInc, io, edits, process, registration, events,
                 sockets>>

\* uploadVideo up to the end of createVideoRecord: the upload middleware
\* has stored the file, the record is saved as pending.  onDisk says
\* whether the stored file is a file at filePath of the local file system.
UploadCreate(u, v, sz, onDisk, ok) ==
  /\ authenticate(u) /\ authorize(UserRole(u), UploadRoles)
  /\ videos[v].state = "none"
  /\ upl[v].pc = "idle"
  /\ files' = [files EXCEPT ![v] = onDisk]
  /\ IF ok
     THEN /\ videos' = [videos EXCEPT ![v] = NewVideo(u, UserTenant(u), sz)]
          /\ upl' = [upl EXCEPT ![v] = [pc |-> "extractMetadata", user |-> u]]
          /\ resp' = resp
     ELSE /\ videos' = videos
          /\ upl' = [upl EXCEPT ![v] = [pc |-> "failed", user |-> u]]
          /\ resp' = [Respond("upload", u, v, 500) EXCEPT !.error = "Upload failed"]
  /\ UNCHANGED <<tenants, run, del, viewInc, io, edits, process, registration, events, sockets>>

\* extractMetadata: findByIdAndUpdate of duration/width/height.  A null
\* result (record deleted meanwhile) makes video.save() throw.
UploadExtract(v, ok) ==
  /\ upl[v].pc = "extractMetadata"
  /\ IF ok /\ Exists(v)
     THEN /\ upl' = [upl EXCEPT ![v].pc = "save"]
          /\ resp' = resp
     ELSE /\ upl' = [upl EXCEPT ![v].pc = "failed"]
          /\ resp' = [Respond("upload", upl[v].user, v, 500) EXCEPT !.error = "Upload failed"]
  /\ UNCHANGED <<videos, files, tenants, run, del, viewInc, io, edits, process, registration, events, sockets>>

\* video.save() of the optional fields, then processVideoAsync is started
\* and 201 is sent.  Saving a document that was deleted meanwhile fails.
UploadSave(v, isPublic, ok) ==
  /\ upl[v].pc = "save"
  /\ IF ok /\ Exists(v)
     THEN /\ videos' = findByIdAndUpdate(v, [isPublic |-> isPublic])
          /\ upl' = [upl EXCEPT ![v].pc = "done"]
          /\ events' = emit(v, "upload_started")
          /\ run' = [run EXCEPT ![v] = At("setProcessing")]
          /\ resp' = [Respond("upload", upl[v].user, v, 201)
                        EXCEPT !.status = "pending", !.disclosed = TRUE]
     ELSE /\ videos' = videos
          /\ upl' = [upl EXCEPT ![v].pc = "failed"]
          /\ events' = events
          /\ run' = run
          /\ resp' = [Respond("upload", upl[v].user, v, 500) EXCEPT !.error = "Upload failed"]
  /\ UNCHANGED <<files, tenants, del, viewInc, io, edits, process, registration, sockets>>

\* -------------------------------------------------------------- pipeline
\* A run that goes on only when every other run has ended.
Awaiting_Serial(v, pc) ==
  /\ run[v].pc = pc
  /\ \A o \in Videos \ {v} : run[o].pc \in {"idle", "done", "rejected"}

\* processVideoAsync of v is suspended at the await named pc; it goes on
\* when the awaited operation settles, whatever other runs do.
Awaiting(v, pc) == run[v].pc = pc

\* Step 1: Video.findByIdAndUpdate(videoId, {processingStatus: 'processing'})
PipelineSetProcessing(v, ok) ==
  /\ Awaiting(v, "setProcessing")
  /\ IF ok
     THEN /\ videos' = findByIdAndUpdate(v, [processingStatus |-> "processing"])
          /\ events' = emit(v, "processing_started")
          /\ run' = [run EXCEPT ![v] = At("findVideo")]
     ELSE /\ videos' = videos
          /\ events' = events
          /\ run' = [run EXCEPT ![v] = Caught("DbError")]
  /\ UNCHANGED <<files, tenants, upl, del, resp, viewInc, io, edits, process, registration, sockets>>

\* analyzeSensitivityForVideo: Video.findById; a null document makes
\* video.duration throw a TypeError.  Then analyzeSensitivity, which never
\* throws, on the signal it obtains.
PipelineFindVideo(v, signal, ok) ==
  /\ Awaiting(v, "findVideo")
  /\ run' = [run EXCEPT ![v] =
       IF ~ok THEN Caught("DbError")
       ELSE IF ~Exists(v) THEN Caught("TypeError")
       ELSE [At("saveSensitivity") EXCEPT
               !.signal = signal, !.analysis = analyzeSensitivity(signal)]]
  /\ UNCHANGED <<videos, files, tenants, upl, del, resp, viewInc, io, edits, process, registration, events, sockets>>

\* analyzeSensitivityForVideo: the update of sensitivityStatus and
\* sensitivityDetails; then processing_progress is emitted.
PipelineSaveSensitivity(v, ok) ==
  /\ Awaiting(v, "saveSensitivity")
  /\ IF ok
     THEN /\ videos' = findByIdAndUpdate(v,
               [sensitivityStatus |->
                  IF run[v].analysis.status = "flagged" THEN "flagged"
                  ELSE "safe",
                sensitivityScore |-> run[v].analysis.score,
                sensitivityFlags |-> run[v].analysis.flags])
          /\ events' = emit(v, "processing_progress")
          /\ run' = [run EXCEPT ![v] = At("setCompleted")]
     ELSE /\ videos' = videos
          /\ events' = events
          /\ run' = [run EXCEPT ![v] = Caught("DbError")]
  /\ UNCHANGED <<files, tenants, upl, del, resp, viewInc, io, edits, process, registration, sockets>>

\* markProcessingComplete, first write: status completed, progress 100.
\* A null result makes video.tenantId throw a TypeError.
PipelineSetCompleted(v, ok) ==
  /\ Awaiting(v, "setCompleted")
  /\ IF ok
     THEN /\ videos' = findByIdAndUpdate(v,
               [processingStatus |-> "completed", processingProgress |-> 100])
          /\ run' = [run EXCEPT ![v] =
               IF Exists(v)
               THEN [At("incStorage") EXCEPT
                       !.tenantId = videos[v].tenantId,
                       !.size = videos[v].size]
               ELSE Caught("TypeError")]
     ELSE /\ videos' = videos
          /\ run' = [run EXCEPT ![v] = Caught("DbError")]
  /\ UNCHANGED <<files, tenants, upl, del, resp, viewInc, io, edits, process, registration, events, sockets>>

\* markProcessingComplete, second write:
\* Tenant $inc usedStorageGB by video.size / 2^30.
PipelineIncStorage(v, ok) ==
  /\ Awaiting(v, "incStorage")
  /\ IF ok
     THEN /\ tenants' = [tenants EXCEPT
               ![run[v].tenantId] = inc(@, run[v].size)]
          /\ events' = emit(v, "processing_completed")
          /\ run' = [run EXCEPT ![v] = At("done")]
     ELSE /\ tenants' = tenants
          /\ events' = events
          /\ run' = [run EXCEPT ![v] = Caught("DbError")]
  /\ UNCHANGED <<videos, files, upl, del, resp, viewInc, io, edits, process, registration, sockets>>

\* A markProcessingFailed that stores no message.
markProcessingFailed_NoMessage(v, error) ==
  findByIdAndUpdate(v, [processingStatus |-> "failed"])

\* VideoService.markProcessingFailed(videoId, error): the write.
markProcessingFailed(v, error) ==
  findByIdAndUpdate(v, [processingStatus |-> "failed",
                        processingError |-> error])

\* The catch block: markProcessingFailed writes failed and error.message,
\* then processing_failed is emitted; when that write throws,
\* markProcessingFailed rethrows and the promise of processVideoAsync is
\* rejected with nobody awaiting it.
PipelineMarkFailed(v, ok) ==
  /\ Awaiting(v, "markFailed")
  /\ IF ok
     THEN /\ videos' = markProcessingFailed(v, run[v].error)
          /\ events' = emit(v, "processing_failed")
          /\ run' = [run EXCEPT ![v] = At("done")]
     ELSE /\ videos' = videos
          /\ events' = events
          /\ run' = [run EXCEPT ![v] = At("rejected")]
  /\ UNCHANGED <<files, tenants, upl, del, resp, viewInc, io, edits, process, registration, sockets>>

\* ---------------------------------------------------------------- delete
Remove(seq, i) == SubSeq(seq, 1, i-1) \o SubSeq(seq, i+1, Len(seq))

\* A findByIdAndDelete that removes nothing.
findByIdAndDelete_KeepsRecord(v) == videos

\* Video.findByIdAndDelete(videoId)
findByIdAndDelete(v) ==
  IF Exists(v) THEN [videos EXCEPT ![v] = Absent("deleted")] ELSE videos

\* deleteVideo (controller and service) up to the issue of
\* findByIdAndDelete: findById, the owner check, the unlink of the file.
\* 'Unauthorized to delete this video' is not one of the two messages the
\* controller maps, so a non-owner is answered 500.
DeleteStart(u, v) ==
  /\ IF ~Exists(v)
     THEN /\ resp' = [Respond("delete", u, v, 404) EXCEPT
                        !.error = "Video not found"]
          /\ UNCHANGED <<files, del>>
     ELSE IF videos[v].ownerId # u
     THEN /\ resp' = [Respond("delete", u, v, 500) EXCEPT
                        !.error = "Failed to delete video"]
          /\ UNCHANGED <<files, del>>
     ELSE /\ Len(del[v]) < MaxDeletes
          /\ files' = [files EXCEPT ![v] = FALSE]
          /\ del' = [del EXCEPT ![v] = Append(@, DeleteRequest(u, v))]
          /\ resp' = resp
  /\ UNCHANGED <<videos, tenants, upl, run, viewInc, io, edits, process, registration, events, sockets>>

\* deleteVideo: Video.findByIdAndDelete executes.
DeleteRecord(v, i, ok) ==
  /\ i \in 1..Len(del[v])
  /\ del[v][i].pc = "deleteRecord"
  /\ IF ok
     THEN /\ videos' = findByIdAndDelete(v)
          /\ del' = [del EXCEPT ![v][i].pc = "decStorage"]
          /\ resp' = resp
     ELSE /\ videos' = videos
          /\ del' = [del EXCEPT ![v] = Remove(@, i)]
          /\ resp' = [Respond("delete", del[v][i].user, v, 500) EXCEPT
                        !.error = "Failed to delete video"]
  /\ UNCHANGED <<files, tenants, upl, run, viewInc, io, edits, process, registration, events, sockets>>

\* deleteVideo: Tenant $inc usedStorageGB by -(video.size / 2^30) on the
\* tenant of the request, then the 200 answer with the deleted document.
DeleteDecStorage(v, i, ok) ==
  /\ i \in 1..Len(del[v])
  /\ del[v][i].pc = "decStorage"
  /\ del' = [del EXCEPT ![v] = Remove(@, i)]
  /\ IF ok
     THEN /\ tenants' = [tenants EXCEPT
               ![del[v][i].tenantId] = inc(@, -del[v][i].size)]
          /\ resp' = [Respond("delete", del[v][i].user, v, 200) EXCEPT
                        !.status = del[v][i].status, !.disclosed = TRUE]
     ELSE /\ tenants' = tenants
          /\ resp' = [Respond("delete", del[v][i].user, v, 500) EXCEPT
                        !.error = "Failed to delete video"]
  /\ UNCHANGED <<videos, files, upl, run, viewInc, io, edits, process, registration, events, sockets>>

\* ----------------------------------------------------------------- reads
\* A getVideoById without the owner-or-public check.
getVideoById_NoOwnerCheck(v, userId, tenantId) ==
  IF ~Exists(v) THEN "Video not found" ELSE "ok"

\* VideoService.getVideoById(videoId, userId, tenantId): the document, or
\* the message of the error thrown.  tenantId is not used.
getVideoById(v, userId, tenantId) ==
  IF ~Exists(v) THEN "Video not found"
  ELSE IF videos[v].ownerId # userId /\ ~videos[v].isPublic THEN "Unauthorized"
  ELSE "ok"

\* The catch block shared by the three read controllers.
ReadError(op, u, v, msg) ==
  IF msg = "Video not found"
  THEN [Respond(op, u, v, 404) EXCEPT !.error = "Video not found"]
  ELSE [Respond(op, u, v, 403) EXCEPT !.error = "Unauthorized"]

\* GET /videos/:videoId  (videoController.getVideoById)
GetVideoById(u, v) ==
  /\ LET r == getVideoById(v, u, UserTenant(u)) IN
       resp' = IF r = "ok"
               THEN [Respond("get", u, v, 200) EXCEPT
                       !.status = videos[v].processingStatus,
                       !.disclosed = TRUE]
               ELSE ReadError("get", u, v, r)
  /\ UNCHANGED <<videos, files, tenants, upl, run, del, viewInc, io, edits, process, registration, events, sockets>>

\* value || null, for a number: undefined, NaN and 0 give null.
NumberOrNull(value) == IF value = NoScore \/ value = 0 THEN NoScore ELSE value

\* value || null, for a string: undefined and '' give null.
StringOrNull(value) == IF value = "" THEN "null" ELSE value

\* The body getVideoStatus builds from the document.
StatusBody(video) ==
  [processingStatus |-> video.processingStatus,
   processingProgress |-> video.processingProgress,
   sensitivityStatus |-> video.sensitivityStatus,
   sensitivityScore |-> NumberOrNull(video.sensitivityScore),
   processingError |-> StringOrNull(video.processingError)]

\* GET /videos/:videoId/status  (streamingController.getVideoStatus)
GetVideoStatus(u, v) ==
  /\ LET r == getVideoById(v, u, UserTenant(u)) IN
       resp' = IF r = "ok"
               THEN [Respond("status", u, v, 200) EXCEPT
                       !.status = videos[v].processingStatus,
                       !.disclosed = TRUE,
                       !.body = StatusBody(videos[v])]
               ELSE ReadError("status", u, v, r)
  /\ UNCHANGED <<videos, files, tenants, upl, run, del, viewInc, io, edits, process, registration, events, sockets>>

\* --- the Range header.  A header value is a sequence of characters; the
\* six characters of "bytes=" are one token, "x" is any other character.
Digits == {"0", "1", "2", "3"}
RangeChars == Digits \cup {"bytes=", "-", "x"}
DigitVal(c) == CASE c = "0" -> 0 [] c = "1" -> 1 [] c = "2" -> 2 [] OTHER -> 3

IndexOf(str, c) ==
  IF \E i \in 1..Len(str) : str[i] = c
  THEN CHOOSE i \in 1..Len(str) : str[i] = c /\ \A j \in 1..(i-1) : str[j] # c
  ELSE 0

\* range.replace(/bytes=/, ''): the first occurrence is removed.
StripUnit(str) ==
  LET i == IndexOf(str, "bytes=") IN
  IF i = 0 THEN str ELSE SubSeq(str, 1, i-1) \o SubSeq(str, i+1, Len(str))

\* str.split('-'): the first two parts; part 2 is "undefined" when the
\* string has no '-'.
SplitDash(str) ==
  LET i == IndexOf(str, "-") IN
  IF i = 0 THEN <<str, "undefined">>
  ELSE LET rest == SubSeq(str, i+1, Len(str))
           j == IndexOf(rest, "-")
       IN <<SubSeq(str, 1, i-1),
            IF j = 0 THEN rest ELSE SubSeq(rest, 1, j-1)>>

\* parseInt(str, 10): the value of the longest prefix of digits.
RECURSIVE DigitsValue(_, _)
DigitsValue(str, acc) ==
  IF str = <<>> \/ Head(str) \notin Digits THEN acc
  ELSE DigitsValue(Tail(str), 10 * acc + DigitVal(Head(str)))

parseInt(str) ==
  IF str = <<>> \/ Head(str) \notin Digits THEN NaN ELSE DigitsValue(str, 0)

RangeStart(range) == parseInt(SplitDash(StripUnit(range))[1])
RangeEnd(range, fileSize) ==
  LET p == SplitDash(StripUnit(range))[2] IN
  IF p = "undefined" \/ p = <<>> THEN fileSize - 1 ELSE parseInt(p)

\* fs.createReadStream(path, {start, end}) throws unless start and end are
\* integers with start <= end.
ReadStreamThrows(start, end) == start = NaN \/ end = NaN \/ start > end

\* Bytes the read stream delivers: from start to end or to the end of file.
BytesRead(start, end, fileSize) ==
  (IF end < fileSize - 1 THEN end ELSE fileSize - 1) - start + 1

\* A range check that is off by one: start = fileSize passes.
RangeNotSatisfiable_Strict(start, fileSize) == start # NaN /\ start > fileSize

\* streamVideo: if (start >= fileSize)
RangeNotSatisfiable(start, fileSize) == start # NaN /\ start >= fileSize

\* streamVideo from the Range handling on, for an existing file.
StreamRespond(u, v, range, code) ==
  [Respond("stream", u, v, code) EXCEPT !.range = range]

RangeResponse(u, v, range, fileSize) ==
  LET start == RangeStart(range)
      end == RangeEnd(range, fileSize)
      chunkSize == IF start = NaN \/ end = NaN THEN NaN ELSE end - start + 1
  IN
  IF range = <<>>
  THEN [StreamRespond(u, v, range, 200) EXCEPT
          !.contentLength = fileSize, !.bytes = fileSize]
  ELSE IF RangeNotSatisfiable(start, fileSize)
  THEN [StreamRespond(u, v, range, 416) EXCEPT
          !.error = "Range Not Satisfiable", !.message = <<start, fileSize>>]
  ELSE IF ReadStreamThrows(start, end)
  THEN [StreamRespond(u, v, range, 500) EXCEPT !.error = "Failed to stream video"]
  ELSE [StreamRespond(u, v, range, 206) EXCEPT
          !.contentRange = <<start, end, fileSize>>,
          !.contentLength = chunkSize,
          !.bytes = BytesRead(start, end, fileSize)]

\* A state check that lets every video through.
ReadyToStream_Always(processingStatus) == TRUE

\* A state check that lets a video still in processing through.
ReadyToStream_NotPending(processingStatus) ==
  processingStatus \in {"completed", "processing"}

\* streamVideo: only completed videos are streamed.
ReadyToStream(processingStatus) == processingStatus = "completed"

\* GET /videos/:videoId/stream  (streamingController.streamVideo)
StreamVideo(u, v, range, maxViews) ==
  LET r == getVideoById(v, u, UserTenant(u)) IN
  IF r # "ok"
  THEN /\ resp' = ReadError("stream", u, v, r)
       /\ UNCHANGED <<videos, files, tenants, upl, run, del, viewInc, io, edits, process, registration, events, sockets>>
  ELSE IF ~ReadyToStream(videos[v].processingStatus)
  THEN /\ resp' = [Respond("stream", u, v, 400) EXCEPT
                     !.error = "Video is still processing or failed",
                     !.status = videos[v].processingStatus]
       /\ UNCHANGED <<videos, files, tenants, upl, run, del, viewInc, io, edits, process, registration, events, sockets>>
  ELSE IF ~files[v]
  THEN /\ resp' = [Respond("stream", u, v, 404) EXCEPT
                     !.error = "Video file not found"]
       /\ UNCHANGED <<videos, files, tenants, upl, run, del, viewInc, io, edits, process, registration, events, sockets>>
  ELSE /\ videos[v].views + viewInc[v] < maxViews
       /\ viewInc' = [viewInc EXCEPT ![v] = @ + 1]
       /\ resp' = RangeResponse(u, v, range, videos[v].size)
       /\ UNCHANGED <<videos, files, tenants, upl, run, del, io, edits, process, registration, events, sockets>>

\* VideoService.incrementViewCount: $inc views; an error is logged only.
IncrementViewCount(v, ok) ==
  /\ viewInc[v] > 0
  /\ viewInc' = [viewInc EXCEPT ![v] = @ - 1]
  /\ videos' = IF ok THEN findByIdAndUpdate(v, [views |-> inc(videos[v].views, 1)])
                ELSE videos
  /\ UNCHANGED <<files, tenants, upl, run, del, resp, io, edits, process, registration, events, sockets>>

\* --------------------------------------------------------------- sockets
\* A join_tenant check that does not compare the tenant.
JoinAllowed_AnyTenant(userId, tenantId) == userId \in Users

\* join_tenant: the user exists and user.tenantId is the tenantId asked for.
JoinAllowed(userId, tenantId) ==
  userId \in Users /\ UserTenant(userId) = tenantId

\* socket.on('join_tenant', {tenantId, userId}); ok: User.findById answers.
JoinTenant(s, userId, tenantId, ok) ==
  /\ sockets' = [sockets EXCEPT ![s] =
       IF ~ok THEN [@ EXCEPT !.reply = "Connection failed"]
       ELSE IF ~JoinAllowed(userId, tenantId)
       THEN [@ EXCEPT !.reply = "Unauthorized"]
       ELSE [@ EXCEPT !.rooms = @ \cup {tenantId}, !.tenantId = tenantId,
                      !.userId = userId, !.reply = "joined_tenant"]]
  /\ UNCHANGED <<videos, files, tenants, upl, run, del, viewInc, resp, io, edits, process, registration,
                 events>>

\* socket.on('leave_tenant'): leaves the room of socket.tenantId, which
\* stays set.
LeaveTenant(s) ==
  /\ sockets[s].tenantId # "-"
  /\ sockets' = [sockets EXCEPT ![s].rooms = @ \ {sockets[s].tenantId}]
  /\ UNCHANGED <<videos, files, tenants, upl, run, del, viewInc, resp, io, edits, process, registration,
                 events>>

\* The socket disconnects (it leaves every room); the next connection is a
\* new socket.
Disconnect(s) ==
  /\ sockets[s] # NewSocket
  /\ sockets' = [sockets EXCEPT ![s] = NewSocket]
  /\ UNCHANGED <<videos, files, tenants, upl, run, del, viewInc, resp, io, edits, process, registration,
                 events>>

\* The socket events, for join_tenant data naming the users given.
SocketEvents(socks, userIds) ==
  \/ \E s \in socks, userId \in userIds, tenantId \in Tenants,
         ok \in BOOLEAN : JoinTenant(s, userId, tenantId, ok)
  \/ \E s \in socks : LeaveTenant(s)
  \/ \E s \in socks : Disconnect(s)

\* Range header values of at most n characters.
RangeHeaders(n) == UNION {[1..k -> RangeChars] : k \in 0..n}

\* The read requests, with the Range headers given.
Reads(vids, ranges) ==
  \/ \E u \in Users, v \in vids : GetVideoById(u, v)
  \/ \E u \in Users, v \in vids : GetVideoStatus(u, v)
  \/ \E u \in Users, v \in vids, range \in ranges :
        StreamVideo(u, v, range, MaxViews)
  \/ \E v \in vids, ok \in BOOLEAN : IncrementViewCount(v, ok)

\* The lifecycle steps, for uploads by the users in uploaders with the
\* isPublic and storage choices given.
Lifecycle(vids, uploaders, publics, disks, signals) ==
  \/ \E token \in Tokens : UploadDenied(token)
  \/ \E u \in uploaders, v \in vids, sz \in Sizes, onDisk \in disks,
         ok \in BOOLEAN : UploadCreate(u, v, sz, onDisk, ok)
  \/ \E v \in vids, ok \in BOOLEAN : UploadExtract(v, ok)
  \/ \E v \in vids, isPublic \in publics, ok \in BOOLEAN :
        UploadSave(v, isPublic, ok)
  \/ \E v \in vids, ok \in BOOLEAN : PipelineSetProcessing(v, ok)
  \/ \E v \in vids, signal \in signals, ok \in BOOLEAN :
        PipelineFindVideo(v, signal, ok)
  \/ \E v \in vids, ok \in BOOLEAN : PipelineSaveSensitivity(v, ok)
  \/ \E v \in vids, ok \in BOOLEAN : PipelineSetCompleted(v, ok)
  \/ \E v \in vids, ok \in BOOLEAN : PipelineIncStorage(v, ok)
  \/ \E v \in vids, ok \in BOOLEAN : PipelineMarkFailed(v, ok)
  \/ \E u \in Users, v \in vids : DeleteStart(u, v)
  \/ \E v \in vids, i \in 1..MaxDeletes, ok \in BOOLEAN : DeleteRecord(v, i, ok)
  \/ \E v \in vids, i \in 1..MaxDeletes, ok \in BOOLEAN :
        DeleteDecStorage(v, i, ok)

\* One video, every choice of uploader, visibility and storage, and every
\* requester; Range handling is exercised by RangeSpec.
SomeRanges == {<<>>, <<"bytes=", "0", "-">>}

\* A signal no rule fires on, and one that is flagged.
SomeSignals ==
  {[duration |-> 60, width |-> 1920, height |-> 1080, frameRate |-> 30,
    draw |-> 20],
   [duration |-> 4, width |-> 319, height |-> 239, frameRate |-> 30,
    draw |-> 19]}

Next ==
  \/ Lifecycle({"v1"}, Users, BOOLEAN, BOOLEAN, SomeSignals)
  \/ Reads({"v1"}, SomeRanges)

Spec == Init /\ [][Next]_vars

\* ------------------------------------------------ the Range specification
\* A completed video of u1 with its file on disk, as an upload of a file of
\* n bytes and a pipeline run without failure leave it.
CompletedVideo(n) ==
  [NewVideo("u1", "t1", n) EXCEPT
     !.processingStatus = "completed", !.processingProgress = 100,
     !.sensitivityStatus = "safe", !.sensitivityScore = 0]

RangeInit ==
  \E n \in 0..MaxFileSize :
    /\ videos = [v \in Videos |->
         IF v = "v1" THEN CompletedVideo(n) ELSE Absent("none")]
    /\ files = [v \in Videos |-> v = "v1"]
    /\ tenants = [t \in Tenants |-> IF t = "t1" THEN n ELSE 0]
    /\ upl = [v \in Videos |->
         IF v = "v1" THEN [pc |-> "done", user |-> "u1"]
         ELSE [pc |-> "idle", user |-> "-"]]
    /\ run = [v \in Videos |-> IF v = "v1" THEN At("done") ELSE NoRun]
    /\ del = [v \in Videos |-> <<>>]
    /\ viewInc = [v \in Videos |-> 0]
    /\ resp = NoResp
    /\ io = startServer
    /\ edits = [v \in Videos |-> <<>>]
    /\ process = "running"
    /\ accounts = {}
    /\ workspaces = {}
    /\ invites = [c \in InviteCodes |-> "none"]
    /\ reg = [e \in Emails |-> NoRegister]
    /\ events = [v \in Videos |-> <<>>]
    /\ sockets = [s \in Sockets |-> NewSocket]

\* One stream request by the owner, with every Range header, and the
\* execution of its view increment.
RangeNext ==
  \/ /\ resp = NoResp
     /\ \E range \in RangeHeaders(MaxRangeLen) :
          StreamVideo("u1", "v1", range, MaxViews)
  \/ \E ok \in BOOLEAN : IncrementViewCount("v1", ok)

RangeSpec == RangeInit /\ [][RangeNext]_vars

\* ================================================================ claims
Terminal == {"completed", "failed"}
StillStored(v) == Exists(v) /\ videos'[v].state = "stored"

\* C1: once a record's processingStatus is completed or failed it never
\* changes again, whatever step of processVideoAsync follows.
C1_TerminalStatusIsFinal ==
  [][\A v \in Videos :
       (StillStored(v) /\ videos[v].processingStatus \in Terminal)
         => videos'[v].processingStatus = videos[v].processingStatus]_vars

\* C2: every change of processingStatus is pending->processing,
\* processing->completed or processing->failed.
C2_StatusTransitions ==
  [][\A v \in Videos :
       (StillStored(v)
          /\ videos'[v].processingStatus # videos[v].processingStatus)
         => <<videos[v].processingStatus, videos'[v].processingStatus>> \in
              {<<"pending", "processing">>, <<"processing", "completed">>,
               <<"processing", "failed">>}]_vars

\* C3: a pipeline run that has ended (its promise resolved or rejected)
\* leaves the record completed or failed.
RunEnded(v) == run[v].pc \in {"done", "rejected"}
C3_RunEndsTerminal ==
  \A v \in Videos :
    (RunEnded(v) /\ Exists(v)) => videos[v].processingStatus \in Terminal

\* A step that sends the response of a request of kind op.
Answers(ops) == resp' # resp /\ resp'.op \in ops
ReadOps == {"get", "status", "stream"}

\* C4: a stream request is answered with bytes (200 or 206) only if the
\* processingStatus it read is completed; for a pending, processing or
\* failed record it got from the lookup it answers 400 with that status in
\* the body and streams nothing.
C4_StreamOnlyCompleted ==
  [][Answers({"stream"}) =>
       LET v == resp'.video
           u == resp'.user
       IN /\ (resp'.code \in {200, 206} =>
                (Exists(v) /\ videos[v].processingStatus = "completed"))
          /\ ((getVideoById(v, u, UserTenant(u)) = "ok"
                 /\ videos[v].processingStatus # "completed") =>
                (/\ resp'.code = 400
                 /\ resp'.status = videos[v].processingStatus
                 /\ resp'.bytes = 0))]_vars

C4_Witness ==
  /\ resp.op = "stream" /\ resp.code = 400 /\ resp.status = "processing"
  /\ files[resp.video]

C6_TenantScopedReads ==
  [][(Answers(ReadOps) /\ resp'.code \in {200, 206}) =>
       videos[resp'.video].tenantId = UserTenant(resp'.user)]_vars

\* C7: usedStorageGB of a tenant is never negative.
C7_StorageNeverNegative == \A t \in Tenants : tenants[t] >= 0

C9_RangeNotSatisfiable ==
  LET v == resp.video
      start == RangeStart(resp.range)
  IN (/\ resp.op = "stream" /\ resp.range # <<>>
      /\ Exists(v) /\ videos[v].processingStatus = "completed" /\ files[v]) =>
       /\ ((resp.code = 416) <=> (start # NaN /\ start >= videos[v].size))
       /\ ((resp.code = 416) =>
            (resp.message = <<start, videos[v].size>> /\ resp.bytes = 0
               /\ resp.contentRange = <<>>))

C9_Witness ==
  /\ resp.op = "stream" /\ resp.code = 416
  /\ resp.message = <<videos[resp.video].size, videos[resp.video].size>>
  /\ videos[resp.video].size > 0

\* A header 'bytes=start-end' or 'bytes=start-'.
WellFormedRange(range) ==
  /\ Len(range) >= 3
  /\ range[1] = "bytes="
  /\ \E d \in 3..Len(range) :
       /\ range[d] = "-"
       /\ \A i \in (2..Len(range)) \ {d} : range[i] \in Digits

\* C10: a well-formed Range header whose start is below the file size N is
\* answered 206 with Content-Range 'bytes start-end/N',
\* 0 <= start <= end <= N-1, Content-Length = end - start + 1, and that
\* many bytes streamed.
C10_RangeWithinFile ==
  LET v == resp.video
      start == RangeStart(resp.range)
      n == videos[v].size
  IN (/\ resp.op = "stream" /\ WellFormedRange(resp.range)
      /\ Exists(v) /\ videos[v].processingStatus = "completed" /\ files[v]
      /\ start < n) =>
       /\ resp.code = 206
       /\ resp.contentRange[1] = start
       /\ resp.contentRange[3] = n
       /\ 0 <= start /\ start <= resp.contentRange[2]
       /\ resp.contentRange[2] <= n - 1
       /\ resp.contentLength = resp.contentRange[2] - start + 1
       /\ resp.bytes = resp.contentLength

\* C11: the views counter rises by exactly one for each stream request
\* answered with bytes (200 or 206) and is left alone by each stream request
\* answered with an error (400, 403, 404, 416): such a request issues no
\* increment, and views changes only by one executed increment at a time.
C11_ViewPerServedStream ==
  [][/\ (Answers({"stream"}) =>
           LET v == resp'.video IN
             /\ (resp'.code \in {200, 206} => viewInc'[v] = viewInc[v] + 1)
             /\ (resp'.code \in {400, 403, 404, 416} => viewInc' = viewInc))
      /\ (\A v \in Videos :
            (StillStored(v) /\ videos'[v].views # videos[v].views) =>
              (/\ videos'[v].views = videos[v].views + 1
               /\ viewInc'[v] = viewInc[v] - 1))]_vars

\* ------------------------------------------- the counter specification
\* Two videos of u1 in tenant t1: v1 completed and on disk, v2 analysed
\* and about to be marked completed, as two uploads and their runs leave
\* them.
CounterInit ==
  \E s1 \in Sizes, s2 \in Sizes :
    /\ videos = [v \in Videos |->
         IF v = "v1" THEN CompletedVideo(s1)
         ELSE [NewVideo("u1", "t1", s2) EXCEPT
                 !.processingStatus = "processing",
                 !.sensitivityStatus = "safe", !.sensitivityScore = 0]]
    /\ files = [v \in Videos |-> TRUE]
    /\ tenants = [t \in Tenants |-> IF t = "t1" THEN s1 ELSE 0]
    /\ upl = [v \in Videos |-> [pc |-> "done", user |-> "u1"]]
    /\ run = [v \in Videos |->
         IF v = "v1" THEN At("done") ELSE At("setCompleted")]
    /\ del = [v \in Videos |-> <<>>]
    /\ viewInc = [v \in Videos |-> 0]
    /\ resp = NoResp
    /\ io = startServer
    /\ edits = [v \in Videos |-> <<>>]
    /\ process = "running"
    /\ accounts = {}
    /\ workspaces = {}
    /\ invites = [c \in InviteCodes |-> "none"]
    /\ reg = [e \in Emails |-> NoRegister]
    /\ events = [v \in Videos |-> <<>>]
    /\ sockets = [s \in Sockets |-> NewSocket]

\* The completion of v2 and the stream requests of its owner with their
\* view increments, and deletes of v1 by its owner, in every order.
CounterNext ==
  \/ \E ok \in BOOLEAN : PipelineSetCompleted("v2", ok)
  \/ \E ok \in BOOLEAN : PipelineIncStorage("v2", ok)
  \/ \E ok \in BOOLEAN : PipelineMarkFailed("v2", ok)
  \/ DeleteStart("u1", "v1")
  \/ \E i \in 1..MaxDeletes, ok \in BOOLEAN : DeleteRecord("v1", i, ok)
  \/ \E i \in 1..MaxDeletes, ok \in BOOLEAN : DeleteDecStorage("v1", i, ok)
  \/ StreamVideo("u1", "v2", <<>>, MaxPending)
  \/ \E ok \in BOOLEAN : IncrementViewCount("v2", ok)

CounterSpec == CounterInit /\ [][CounterNext]_vars

\* C12: no counter update is lost.  Every $inc of views that executes on a
\* stored record raises views by one over the value stored at that moment,
\* whatever other increments are pending, and views changes in no other
\* way; every storage update that executes changes usedStorageGB of its
\* tenant by exactly its own delta over the stored value, and usedStorageGB
\* changes in no other way.
C12_NoLostUpdate ==
  [][/\ (\A v \in Videos :
          /\ ((IncrementViewCount(v, TRUE) /\ Exists(v)) =>
                videos'[v].views = videos[v].views + 1)
          /\ ((StillStored(v) /\ videos'[v].views # videos[v].views) =>
                IncrementViewCount(v, TRUE))
          /\ (PipelineIncStorage(v, TRUE) =>
                tenants'[run[v].tenantId]
                  = tenants[run[v].tenantId] + run[v].size)
          /\ \A i \in 1..Len(del[v]) :
                DeleteDecStorage(v, i, TRUE) =>
                  tenants'[del[v][i].tenantId]
                    = tenants[del[v][i].tenantId] - del[v][i].size)
      /\ (tenants' # tenants =>
            \E v \in Videos :
              \/ PipelineIncStorage(v, TRUE)
              \/ \E i \in 1..Len(del[v]) : DeleteDecStorage(v, i, TRUE))]_vars

\* Two increments of one video were pending together and both took
\* effect, after v2 was completed and v1's delete was applied.
C12_Witness ==
  /\ \E v \in Videos : Exists(v) /\ videos[v].views = MaxPending
  /\ run["v2"].pc = "done" /\ videos["v1"].state = "deleted"
  /\ resp.op = "delete" /\ resp.code = 200

\* --------------------------------------------- the event specification
\* The app of createApp(io) or of createApp(), no video, two sockets
\* connected.
EventInit ==
  /\ videos = [v \in Videos |-> Absent("none")]
  /\ files = [v \in Videos |-> FALSE]
  /\ tenants = [t \in Tenants |-> 0]
  /\ upl = [v \in Videos |-> [pc |-> "idle", user |-> "-"]]
  /\ run = [v \in Videos |-> NoRun]
  /\ del = [v \in Videos |-> <<>>]
  /\ viewInc = [v \in Videos |-> 0]
  /\ resp = NoResp
  /\ io \in createApp
  /\ edits = [v \in Videos |-> <<>>]
  /\ process = "running"
  /\ accounts = {}
  /\ workspaces = {}
  /\ invites = [c \in InviteCodes |-> "none"]
  /\ reg = [e \in Emails |-> NoRegister]
  /\ events = [v \in Videos |-> <<>>]
  /\ sockets = [s \in Sockets |-> NewSocket]

\* join_tenant data names a user of either tenant or no user.
JoinUserIds == {"u1", "u3", "u0"}
CalmSignal ==
  [duration |-> 60, width |-> 1920, height |-> 1080, frameRate |-> 30,
   draw |-> 20]

\* One video uploaded by u1 and its run, while socket s1 joins and leaves
\* rooms with any join_tenant data and socket s2 asks to join either room
\* in the name of u3.
EventNext ==
  \/ \E ok \in BOOLEAN : UploadCreate("u1", "v1", MaxSize, TRUE, ok)
  \/ \E ok \in BOOLEAN : UploadExtract("v1", ok)
  \/ \E ok \in BOOLEAN : UploadSave("v1", FALSE, ok)
  \/ \E ok \in BOOLEAN : PipelineSetProcessing("v1", ok)
  \/ \E ok \in BOOLEAN : PipelineFindVideo("v1", CalmSignal, ok)
  \/ \E ok \in BOOLEAN : PipelineSaveSensitivity("v1", ok)
  \/ \E ok \in BOOLEAN : PipelineSetCompleted("v1", ok)
  \/ \E ok \in BOOLEAN : PipelineIncStorage("v1", ok)
  \/ \E ok \in BOOLEAN : PipelineMarkFailed("v1", ok)
  \/ SocketEvents({"s1"}, JoinUserIds)
  \/ \E tenantId \in Tenants, ok \in BOOLEAN :
        JoinTenant("s2", "u3", tenantId, ok)

EventSpec == EventInit /\ [][EventNext]_vars

PipelineEvents ==
  {"processing_started", "processing_progress", "processing_completed",
   "processing_failed"}
TerminalEvents == {"processing_completed", "processing_failed"}

\* event name was emitted for v before position i of its log
EmittedBefore(v, name, i) == \E j \in 1..(i-1) : events[v][j].event = name

\* C13: with io attached, the pipeline events of a video come in the fixed
\* order: processing_progress only after processing_started,
\* processing_completed only after processing_progress, processing_failed
\* only after processing_started, no pipeline event after a terminal one,
\* and a run that has ended has emitted exactly one terminal event.
C13_EventOrder ==
  io =>
    \A v \in Videos :
      /\ \A i \in 1..Len(events[v]) :
           LET e == events[v][i].event IN
             /\ (e = "processing_progress" =>
                   EmittedBefore(v, "processing_started", i))
             /\ (e = "processing_completed" =>
                   EmittedBefore(v, "processing_progress", i))
             /\ (e = "processing_failed" =>
                   EmittedBefore(v, "processing_started", i))
             /\ (e \in PipelineEvents =>
                   \A j \in 1..(i-1) : events[v][j].event \notin TerminalEvents)
      /\ (RunEnded(v) =>
            Cardinality({i \in 1..Len(events[v]) :
                           events[v][i].event \in TerminalEvents}) = 1)

\* The tenant of v: of the record, which is the tenant of its uploader.
TenantOf(v) == UserTenant(upl[v].user)

\* C14: every pipeline event of a video is delivered only to sockets that
\* are in the room of the video's tenant when it is emitted; a socket
\* enters room tenant-T only by a join_tenant whose userId names an existing
\* user with tenantId T; a join_tenant for another tenant, or naming no
\* user, is answered with an error and joins nothing.
C14_TenantRooms ==
  [][/\ (\A v \in Videos :
            events'[v] # events[v] =>
              LET e == events'[v][Len(events'[v])] IN
                /\ events'[v] = Append(events[v], e)
                /\ (Exists(v) => videos[v].tenantId = TenantOf(v))
                /\ e.room = TenantOf(v)
                /\ e.to = {s \in Sockets : TenantOf(v) \in sockets[s].rooms})
      /\ (\A s \in Sockets, t \in Tenants :
            (t \in sockets'[s].rooms /\ t \notin sockets[s].rooms) =>
              (/\ sockets'[s].userId \in Users
               /\ UserTenant(sockets'[s].userId) = t
               /\ sockets'[s].reply = "joined_tenant"
               /\ JoinTenant(s, sockets'[s].userId, t, TRUE)))
      /\ (\A s \in Sockets, userId \in JoinUserIds, t \in Tenants :
            (JoinTenant(s, userId, t, TRUE)
               /\ ~(userId \in Users /\ UserTenant(userId) = t)) =>
              (/\ sockets'[s].rooms = sockets[s].rooms
               /\ sockets'[s].reply = "Unauthorized"))]_vars

\* A terminal event reached the socket in the tenant's room and not the
\* socket in the other tenant's room, and a join was refused.
C14_Witness ==
  \E v \in Videos, s \in Sockets, o \in Sockets :
    /\ Len(events[v]) > 0
    /\ events[v][Len(events[v])].event \in TerminalEvents
    /\ events[v][Len(events[v])].to = {s}
    /\ sockets[o].rooms = Tenants \ {TenantOf(v)}
    /\ sockets[o].reply = "Unauthorized"

\* C15: in the server startServer assembles, a run emits
\* processing_started once the record entered processing and the matching
\* terminal event once it ended.
C15_EventsInStartedServer ==
  io = startServer =>
    \A v \in Videos :
      /\ (run[v].pc \in {"findVideo", "saveSensitivity", "setCompleted",
                          "incStorage"} =>
            \E i \in 1..Len(events[v]) :
              events[v][i].event = "processing_started")
      /\ ((run[v].pc = "done" /\ Exists(v)
             /\ videos[v].processingStatus = "completed") =>
            \E i \in 1..Len(events[v]) :
              events[v][i].event = "processing_completed")
      /\ ((run[v].pc = "done" /\ Exists(v)
             /\ videos[v].processingStatus = "failed") =>
            \E i \in 1..Len(events[v]) :
              events[v][i].event = "processing_failed")

\* ---------------------------------------------- the pair specification
\* Uploads of two videos by u1 and their runs, in every order.
PairNext ==
  \/ \E v \in Videos, ok \in BOOLEAN : UploadCreate("u1", v, MaxSize, TRUE, ok)
  \/ \E v \in Videos, ok \in BOOLEAN : UploadExtract(v, ok)
  \/ \E v \in Videos, ok \in BOOLEAN : UploadSave(v, FALSE, ok)
  \/ \E v \in Videos, ok \in BOOLEAN : PipelineSetProcessing(v, ok)
  \/ \E v \in Videos, ok \in BOOLEAN : PipelineFindVideo(v, CalmSignal, ok)
  \/ \E v \in Videos, ok \in BOOLEAN : PipelineSaveSensitivity(v, ok)
  \/ \E v \in Videos, ok \in BOOLEAN : PipelineSetCompleted(v, ok)
  \/ \E v \in Videos, ok \in BOOLEAN : PipelineIncStorage(v, ok)
  \/ \E v \in Videos, ok \in BOOLEAN : PipelineMarkFailed(v, ok)

PairSpec == Init /\ [][PairNext]_vars

\* The next step of the run of v.
PipelineStep(v) ==
  \E ok \in BOOLEAN :
    \/ PipelineSetProcessing(v, ok)
    \/ PipelineFindVideo(v, CalmSignal, ok)
    \/ PipelineSaveSensitivity(v, ok)
    \/ PipelineSetCompleted(v, ok)
    \/ PipelineIncStorage(v, ok)
    \/ PipelineMarkFailed(v, ok)
RunInProgress(v) == run[v].pc \notin {"idle", "done", "rejected"}

\* C16: an upload answered 201 carries the record with processingStatus
\* pending and its run has been started; the answer of an upload that saved
\* its record is due whatever the runs of other videos are doing (not
\* started, in progress or ended), and every run in progress can take its
\* next step whatever the other runs are doing.
C16_UploadDoesNotWait ==
  /\ ((resp.op = "upload" /\ resp.code = 201) =>
        (/\ resp.status = "pending" /\ resp.disclosed
         /\ run[resp.video].pc # "idle"))
  /\ (\A v \in Videos :
        upl[v].pc = "save" => ENABLED UploadSave(v, FALSE, TRUE))
  /\ (\A v \in Videos : RunInProgress(v) => ENABLED PipelineStep(v))

\* The answer to the upload of one video is sent while the run of the
\* other is in progress, and both runs are in progress together.
C16_Witness ==
  \E v \in Videos : \E o \in Videos \ {v} :
    /\ resp.op = "upload" /\ resp.code = 201 /\ resp.video = v
    /\ run[v].pc = "saveSensitivity" /\ run[o].pc = "incStorage"

\* C17: an upload request without a valid token is answered 401 and one by
\* a viewer 403, and neither changes a record, a file or a run; a record,
\* a stored file or a run comes into being only by the upload of an
\* authenticated editor or admin.
C17_UploadRejected ==
  [][/\ ((Answers({"upload"}) /\ resp'.user \notin Users) =>
           (resp'.code = 401 /\ UNCHANGED <<videos, files, run, upl>>))
      /\ ((Answers({"upload"}) /\ resp'.user \in Users
             /\ UserRole(resp'.user) = "viewer") =>
           (resp'.code = 403 /\ UNCHANGED <<videos, files, run, upl>>))
      /\ (\A v \in Videos :
            (\/ videos[v].state = "none" /\ videos'[v].state = "stored"
             \/ ~files[v] /\ files'[v]
             \/ run[v].pc = "idle" /\ run'[v].pc # "idle") =>
              (/\ upl'[v].user \in Users
               /\ UserRole(upl'[v].user) \in {"editor", "admin"}))]_vars

\* The viewer is refused while a video of the tenant is stored.
C17_Witness ==
  /\ resp.op = "upload" /\ resp.code = 403 /\ resp.user = "u2"
  /\ Exists("v1") /\ videos["v1"].processingStatus = "completed"

\* C18: a status answer 200 carries processingStatus, processingProgress,
\* sensitivityStatus, sensitivityScore and processingError as stored on the
\* record at that moment, sensitivityScore null only when no score is
\* stored, and the request changes no state.
C18_StatusReflectsRecord ==
  [][(Answers({"status"}) /\ resp'.code = 200) =>
       LET video == videos[resp'.video] IN
         /\ resp'.body.processingStatus = video.processingStatus
         /\ resp'.body.processingProgress = video.processingProgress
         /\ resp'.body.sensitivityStatus = video.sensitivityStatus
         /\ resp'.body.sensitivityScore = video.sensitivityScore
         /\ resp'.body.processingError =
              (IF video.processingError = "" THEN "null"
               ELSE video.processingError)
         /\ UNCHANGED <<videos, files, tenants, upl, run, del, viewInc,
                         events, sockets>>]_vars

\* ---------------------------------------- the sensitivity specification
\* A video of u1 in processing, its run about to analyse it.
SensitivityInit ==
  /\ videos = [v \in Videos |->
       IF v = "v1"
       THEN [NewVideo("u1", "t1", MaxSize) EXCEPT
               !.processingStatus = "processing"]
       ELSE Absent("none")]
  /\ files = [v \in Videos |-> v = "v1"]
  /\ tenants = [t \in Tenants |-> 0]
  /\ upl = [v \in Videos |->
       IF v = "v1" THEN [pc |-> "done", user |-> "u1"]
       ELSE [pc |-> "idle", user |-> "-"]]
  /\ run = [v \in Videos |-> IF v = "v1" THEN At("findVideo") ELSE NoRun]
  /\ del = [v \in Videos |-> <<>>]
  /\ viewInc = [v \in Videos |-> 0]
  /\ resp = [Respond("upload", "u1", "v1", 201) EXCEPT
               !.status = "pending", !.disclosed = TRUE]
  /\ io = startServer
  /\ edits = [v \in Videos |-> <<>>]
  /\ process = "running"
  /\ accounts = {}
  /\ workspaces = {}
  /\ invites = [c \in InviteCodes |-> "none"]
  /\ reg = [e \in Emails |-> NoRegister]
  /\ events = [v \in Videos |-> <<>>]
  /\ sockets = [s \in Sockets |-> NewSocket]

\* The rest of the run, on every signal.
SensitivityNext ==
  \/ \E signal \in Signals, ok \in BOOLEAN : PipelineFindVideo("v1", signal, ok)
  \/ \E ok \in BOOLEAN : PipelineSaveSensitivity("v1", ok)
  \/ \E ok \in BOOLEAN : PipelineSetCompleted("v1", ok)
  \/ \E ok \in BOOLEAN : PipelineIncStorage("v1", ok)
  \/ \E ok \in BOOLEAN : PipelineMarkFailed("v1", ok)

SensitivitySpec == SensitivityInit /\ [][SensitivityNext]_vars

\* The table of rules: the tokens of the rules that fire on a signal (a
\* missing value fires no rule), and the points of a set of tokens.
RulesFired(signal) ==
  {token \in {"very_short_duration", "very_long_duration", "low_resolution",
              "high_frame_rate", "automatic_detection"} :
     CASE token = "very_short_duration" ->
            signal.duration # NaN /\ signal.duration < 5
       [] token = "very_long_duration" ->
            signal.duration # NaN /\ signal.duration > 7200
       [] token = "low_resolution" ->
            \/ signal.width # NaN /\ signal.width < 320
            \/ signal.height # NaN /\ signal.height < 240
       [] token = "high_frame_rate" ->
            signal.frameRate # NaN /\ signal.frameRate > 60
       [] OTHER -> signal.draw < 20}
RulePoints(tokens) ==
  (IF "very_short_duration" \in tokens THEN 15 ELSE 0)
    + (IF "very_long_duration" \in tokens THEN 5 ELSE 0)
    + (IF "low_resolution" \in tokens THEN 20 ELSE 0)
    + (IF "high_frame_rate" \in tokens THEN 10 ELSE 0)
    + (IF "automatic_detection" \in tokens THEN 30 ELSE 0)

\* C19: on every signal and draw the analysis has score = min(points of
\* the rules that fire, 100), within 0..100, flags = the tokens of the
\* rules that fire, and status flagged exactly when score >= 50; what is
\* persisted on a completed video satisfies the same relation.
C19_SensitivityScore ==
  \A v \in Videos :
    /\ (run[v].pc = "saveSensitivity" =>
          LET fired == RulesFired(run[v].signal)
              a == run[v].analysis
          IN /\ a.score = Min(RulePoints(fired), 100)
             /\ a.score \in 0..100
             /\ a.flags = fired
             /\ a.status \in {"flagged", "safe"}
             /\ (a.status = "flagged" <=> a.score >= 50))
    /\ ((Exists(v) /\ videos[v].processingStatus = "completed") =>
          (/\ videos[v].sensitivityScore
                = Min(RulePoints(videos[v].sensitivityFlags), 100)
           /\ videos[v].sensitivityScore \in 0..100
           /\ videos[v].sensitivityStatus \in {"flagged", "safe"}
           /\ (videos[v].sensitivityStatus = "flagged"
                 <=> videos[v].sensitivityScore >= 50)))

\* A completed video flagged with a score of exactly 50.
C19_Witness ==
  \E v \in Videos :
    /\ Exists(v) /\ videos[v].processingStatus = "completed"
    /\ videos[v].sensitivityStatus = "flagged"
    /\ videos[v].sensitivityScore = 50
    /\ videos[v].sensitivityFlags = {"low_resolution", "automatic_detection"}

\* C20: a failed record has a non-empty processingError, and a record has
\* a processingError only if it is failed.
C20_ErrorIffFailed ==
  \A v \in Videos :
    Exists(v) =>
      (/\ (videos[v].processingStatus = "failed" =>
             videos[v].processingError # "")
       /\ (videos[v].processingError # "" =>
             videos[v].processingStatus = "failed"))

C20_Witness ==
  \E v \in Videos :
    /\ Exists(v) /\ videos[v].processingStatus = "failed"
    /\ videos[v].processingError = "DbError"
    /\ videos[v].processingProgress = 100

\* C21: a delete request by an authenticated user who is not the owner of
\* an existing video is answered 403 (not 404, not 500) and leaves the
\* record, the stored file and the tenant's usedStorageGB unchanged.
C21_DeleteByNonOwner ==
  [][\A v \in Videos :
       (Answers({"delete"}) /\ resp'.video = v /\ Exists(v)
          /\ del' = del /\ videos[v].ownerId # resp'.user)
         => (/\ resp'.code = 403
             /\ UNCHANGED <<videos, files, tenants>>)]_vars

\* -------------------------------------------------- metadata edits
MaxEdits == 1           \* updates of one video waiting for their write

\* The keys a PUT body may carry, with the value it carries for each.
BodyKeys == {"description", "tags", "isPublic", "processingStatus", "ownerId"}
BodyValue(field, isPublic) ==
  CASE field = "description" -> "d"
    [] field = "tags" -> "t"
    [] field = "isPublic" -> isPublic
    [] field = "processingStatus" -> "completed"
    [] OTHER -> "u2"
Body(keys, isPublic) == [field \in keys |-> BodyValue(field, isPublic)]
Bodies ==
  {Body(BodyKeys, TRUE), Body({"isPublic"}, FALSE),
   Body({"description", "processingStatus"}, TRUE)}

\* An update that copies every key of the body.
allowedUpdates_Any == BodyKeys

\* updateVideoMetadata: the fields an update may carry.
allowedUpdates == {"description", "tags", "isPublic"}

\* updateVideoMetadata: updateData, the allowed fields present in the body.
updateData(updates) ==
  [field \in allowedUpdates \cap DOMAIN updates |-> updates[field]]

\* PUT /videos/:videoId up to its first database answer: Video.findById,
\* then the owner check; the owner's request goes on to its write.
UpdateFind(u, v, updates, ok) ==
  /\ IF ~ok
     THEN /\ resp' = [Respond("update", u, v, 500) EXCEPT
                        !.error = "Failed to update video", !.body = updates]
          /\ edits' = edits
     ELSE IF ~Exists(v)
     THEN /\ resp' = [Respond("update", u, v, 404) EXCEPT
                        !.error = "Video not found", !.body = updates]
          /\ edits' = edits
     ELSE IF videos[v].ownerId # u
     THEN /\ resp' = [Respond("update", u, v, 403) EXCEPT
                        !.error = "Unauthorized", !.body = updates]
          /\ edits' = edits
     ELSE /\ Len(edits[v]) < MaxEdits
          /\ edits' = [edits EXCEPT ![v] =
               Append(@, [user |-> u, updates |-> updates,
                          updateData |-> updateData(updates)])]
          /\ resp' = resp
  /\ UNCHANGED <<videos, files, tenants, upl, run, del, viewInc, io, process,
                 registration, events, sockets>>

\* updateVideoMetadata: Video.findByIdAndUpdate(videoId, updateData)
\* executes, and the answer is sent: 200 with the document (null when it was
\* deleted meanwhile), or 500.
UpdateWrite(v, i, ok) ==
  /\ i \in 1..Len(edits[v])
  /\ LET edit == edits[v][i] IN
       IF ok
       THEN /\ videos' = findByIdAndUpdate(v, edit.updateData)
            /\ resp' = [Respond("update", edit.user, v, 200) EXCEPT
                          !.disclosed = Exists(v), !.body = edit.updates]
       ELSE /\ videos' = videos
            /\ resp' = [Respond("update", edit.user, v, 500) EXCEPT
                          !.error = "Failed to update video",
                          !.body = edit.updates]
  /\ edits' = [edits EXCEPT ![v] = Remove(@, i)]
  /\ UNCHANGED <<files, tenants, upl, run, del, viewInc, io, process,
                 registration, events, sockets>>

\* One video of u1 through its lifecycle, while u1 and u2 send updates.
EditNext ==
  \/ \E ok \in BOOLEAN : UploadCreate("u1", "v1", MaxSize, TRUE, ok)
  \/ \E ok \in BOOLEAN : UploadExtract("v1", ok)
  \/ \E ok \in BOOLEAN : UploadSave("v1", FALSE, ok)
  \/ \E ok \in BOOLEAN : PipelineSetProcessing("v1", ok)
  \/ \E ok \in BOOLEAN : PipelineFindVideo("v1", CalmSignal, ok)
  \/ \E ok \in BOOLEAN : PipelineSaveSensitivity("v1", ok)
  \/ \E ok \in BOOLEAN : PipelineSetCompleted("v1", ok)
  \/ \E ok \in BOOLEAN : PipelineIncStorage("v1", ok)
  \/ \E ok \in BOOLEAN : PipelineMarkFailed("v1", ok)
  \/ DeleteStart("u1", "v1")
  \/ \E i \in 1..MaxDeletes : DeleteRecord("v1", i, TRUE)
  \/ \E i \in 1..MaxDeletes : DeleteDecStorage("v1", i, TRUE)
  \/ \E u \in {"u1", "u2"}, updates \in Bodies, ok \in BOOLEAN :
        UpdateFind(u, "v1", updates, ok)
  \/ \E i \in 1..MaxEdits, ok \in BOOLEAN : UpdateWrite("v1", i, ok)

EditSpec == Init /\ [][EditNext]_vars

\* A step of an update request for v.
UpdateStep(v) ==
  \/ edits'[v] # edits[v]
  \/ Answers({"update"}) /\ resp'.video = v

\* C22: an update request changes at most description, tags and isPublic of
\* its video, whatever keys its body carries, and nothing else in the
\* database or on disk; a request by a user who is not the owner is answered
\* 403 and changes nothing.
C22_UpdateFrame ==
  [][\A v \in Videos :
       UpdateStep(v) =>
         /\ \A o \in Videos \ {v} : videos'[o] = videos[o]
         /\ \A f \in DOMAIN videos[v] \ {"description", "tags", "isPublic"} :
               videos'[v][f] = videos[v][f]
         /\ UNCHANGED <<files, tenants>>
         /\ (Answers({"update"}) /\ Exists(v)
               /\ videos[v].ownerId # resp'.user /\ resp'.code # 500)
              => (resp'.code = 403 /\ videos' = videos /\ edits' = edits)]_vars

\* The owner's update with a body that also carries processingStatus and
\* ownerId has been written to a record in processing: description, tags and
\* isPublic are the body's, the status and the owner are the record's.
C22_Witness ==
  /\ resp.op = "update" /\ resp.code = 200 /\ resp.user = "u1"
  /\ DOMAIN resp.body = BodyKeys
  /\ Exists("v1")
  /\ videos["v1"].description = "d" /\ videos["v1"].tags = "t"
  /\ videos["v1"].isPublic = TRUE
  /\ videos["v1"].processingStatus = "processing"
  /\ videos["v1"].ownerId = "u1"

\* ------------------------------------------------ the node process
\* The promise of processVideoAsync is rejected (markProcessingFailed threw
\* inside the catch block) and nothing handles the rejection: a node that
\* throws on unhandled rejections ends the process, an older one only warns
\* (the step does not happen).
UnhandledRejection(v) ==
  /\ run[v].pc = "rejected"
  /\ process' = "exited"
  /\ UNCHANGED <<videos, files, tenants, upl, run, del, viewInc, resp, io,
                 edits, registration, events, sockets>>

\* The read stream piped into a 200/206 answer emits 'error' (the storage
\* fails to read the file): the handler is registered on res, the read
\* stream has no 'error' listener, and the error is thrown in the event loop.
ReadStreamError(v) ==
  /\ resp.op = "stream" /\ resp.video = v /\ resp.code \in {200, 206}
  /\ process' = "exited"
  /\ UNCHANGED <<videos, files, tenants, upl, run, del, viewInc, resp, io,
                 edits, registration, events, sockets>>

\* Two videos of u1, their runs and stream requests for them, for as long
\* as the process runs.
CrashNext ==
  \/ process = "running" /\ PairNext
  \/ process = "running"
       /\ \E v \in Videos : StreamVideo("u1", v, <<>>, MaxViews)
  \/ process = "running"
       /\ \E v \in Videos, ok \in BOOLEAN : IncrementViewCount(v, ok)
  \/ process = "running" /\ \E v \in Videos : UnhandledRejection(v)
  \/ process = "running" /\ \E v \in Videos : ReadStreamError(v)

CrashSpec == Init /\ [][CrashNext]_vars

\* C23: a failure inside the run of one video or inside one stream request
\* (a failed database write while the failure is recorded, a read error on
\* the stream after the headers) never ends the server process, and a step
\* of the run of one video never changes the record of another.
C23_FailureIsolated ==
  [][/\ process' = "running"
     /\ \A v \in Videos :
          run'[v] # run[v] => \A o \in Videos \ {v} : videos'[o] = videos[o]]_vars

\* C24: every record created by an upload has a pipeline run started for it:
\* once the upload request that created the record is answered, the run of
\* the record has begun, also when the answer is 500.
C24_RunPerRecord ==
  \A v \in Videos :
    (videos[v].state # "none" /\ upl[v].pc \in {"done", "failed"})
      => run[v].pc # "idle"

\* ------------------------------------------- the order of the checks
\* No Range header, a satisfiable one, and one that starts past every file.
OrderRanges == {<<>>, <<"bytes=", "0", "-">>, <<"bytes=", "3", "-">>}

\* One video of u1, stored or not, public or not, through its lifecycle and
\* its deletion, while every user requests its stream.
OrderNext ==
  \/ \E onDisk \in BOOLEAN, ok \in BOOLEAN :
        UploadCreate("u1", "v1", MaxSize, onDisk, ok)
  \/ \E ok \in BOOLEAN : UploadExtract("v1", ok)
  \/ \E isPublic \in BOOLEAN, ok \in BOOLEAN : UploadSave("v1", isPublic, ok)
  \/ \E ok \in BOOLEAN : PipelineSetProcessing("v1", ok)
  \/ \E ok \in BOOLEAN : PipelineFindVideo("v1", CalmSignal, ok)
  \/ \E ok \in BOOLEAN : PipelineSaveSensitivity("v1", ok)
  \/ \E ok \in BOOLEAN : PipelineSetCompleted("v1", ok)
  \/ \E ok \in BOOLEAN : PipelineIncStorage("v1", ok)
  \/ \E ok \in BOOLEAN : PipelineMarkFailed("v1", ok)
  \/ DeleteStart("u1", "v1")
  \/ \E i \in 1..MaxDeletes : DeleteRecord("v1", i, TRUE)
  \/ \E i \in 1..MaxDeletes : DeleteDecStorage("v1", i, TRUE)
  \/ \E u \in Users, range \in OrderRanges : StreamVideo(u, "v1", range, MaxViews)
  \/ \E ok \in BOOLEAN : IncrementViewCount("v1", ok)

OrderSpec == Init /\ [][OrderNext]_vars

\* C25: a stream request is rejected by the first check that fails, in the
\* order lookup (404 'Video not found'), authorization (403), state (400),
\* file existence (404 'Video file not found'), range (416); a video that is
\* not completed and whose file is missing is answered 400.
C25_StreamCheckOrder ==
  [][Answers({"stream"}) =>
       LET v == resp'.video
           u == resp'.user
           range == resp'.range
       IN
       IF ~Exists(v)
       THEN resp'.code = 404 /\ resp'.error = "Video not found"
       ELSE IF videos[v].ownerId # u /\ ~videos[v].isPublic
       THEN resp'.code = 403
       ELSE IF videos[v].processingStatus # "completed"
       THEN resp'.code = 400
       ELSE IF ~files[v]
       THEN resp'.code = 404 /\ resp'.error = "Video file not found"
       ELSE IF range # <<>> /\ RangeStart(range) # NaN
                 /\ RangeStart(range) >= videos[v].size
       THEN resp'.code = 416
       ELSE resp'.code \in {200, 206, 500}]_vars

\* A video that is not completed and whose file is missing was requested by
\* its owner and answered 400.
C25_Witness ==
  /\ resp.op = "stream" /\ resp.code = 400 /\ resp.user = "u1"
  /\ Exists("v1") /\ videos["v1"].processingStatus = "processing"
  /\ ~files["v1"]

\* The sizes of the completed records of tenant t among vids, summed.
RECURSIVE CompletedSize(_, _)
CompletedSize(t, vids) ==
  IF vids = {} THEN 0
  ELSE LET v == CHOOSE x \in vids : TRUE IN
       (IF Exists(v) /\ videos[v].tenantId = t
            /\ videos[v].processingStatus = "completed"
        THEN videos[v].size ELSE 0) + CompletedSize(t, vids \ {v})

\* No run and no delete is in progress.
Quiescent ==
  \A v \in Videos :
    run[v].pc \in {"idle", "done", "rejected"} /\ del[v] = <<>>

\* C26: whenever no run and no delete is in progress, usedStorageGB of each
\* tenant is its initial value plus the sizes of its existing completed
\* records: a video that was deleted has added and removed the same amount.
C26_StorageAccounting ==
  Quiescent => \A t \in Tenants : tenants[t] = CompletedSize(t, Videos)

\* C27: the processingProgress of a record is 0 or 100, and it is 100
\* exactly when the record is completed; a failed record never shows 100.
C27_ProgressMatchesStatus ==
  \A v \in Videos :
    Exists(v) =>
      /\ videos[v].processingProgress \in {0, 100}
      /\ (videos[v].processingProgress = 100
            <=> videos[v].processingStatus = "completed")

\* ------------------------------------------------- the socket relays
\* socket.on('upload_started') and socket.on('processing_progress'): when
\* socket.tenantId is set, the message goes to the room of that tenant as
\* upload_notification / progress_update.
Relay(s, name) ==
  /\ sockets[s].tenantId # "-"
  /\ sockets' = [sockets EXCEPT ![s].relayed =
       [event |-> name, room |-> sockets[s].tenantId,
        to |-> Room(sockets[s].tenantId)]]
  /\ UNCHANGED <<videos, files, tenants, upl, run, del, viewInc, resp, io,
                 edits, process, registration, events>>

\* Two sockets: their joins, leaves, disconnects and messages.
SocketNext ==
  \/ SocketEvents(Sockets, JoinUserIds)
  \/ \E s \in Sockets : Relay(s, "upload_notification")
  \/ \E s \in Sockets : Relay(s, "progress_update")

SocketSpec == Init /\ [][SocketNext]_vars

\* C28: leave_tenant leaves the socket member of no tenant room, whatever
\* joins came before it, and a message of a socket that is member of no room
\* is relayed to no room.
C28_LeaveStopsRelay ==
  [][\A s \in Sockets :
       /\ LeaveTenant(s) => sockets'[s].rooms = {}
       /\ (sockets[s].rooms = {} /\ sockets'[s].rooms = {})
            => sockets'[s].relayed = sockets[s].relayed]_vars

\* C29: every analysis (and every completed record) with status flagged has
\* automatic_detection among its flags; the points of the four deterministic
\* rules stay at 45 or below, the score at 75 or below, and the score is the
\* sum of the points, unchanged by min(., 100).
C29_FlaggedNeedsRandomRule ==
  \A v \in Videos :
    /\ (run[v].pc = "saveSensitivity" =>
          LET a == run[v].analysis IN
            /\ (a.status = "flagged" => "automatic_detection" \in a.flags)
            /\ RulePoints(a.flags \ {"automatic_detection"}) <= 45
            /\ a.score <= 75
            /\ a.score = RulePoints(a.flags))
    /\ ((Exists(v) /\ videos[v].processingStatus = "completed") =>
          /\ (videos[v].sensitivityStatus = "flagged"
                => "automatic_detection" \in videos[v].sensitivityFlags)
          /\ videos[v].sensitivityScore <= 75
          /\ videos[v].sensitivityScore = RulePoints(videos[v].sensitivityFlags))

\* An analysis on which the random rule and three deterministic rules fire:
\* flagged, with the largest score, 75.
C29_Witness ==
  \E v \in Videos :
    /\ run[v].pc = "saveSensitivity"
    /\ run[v].analysis.status = "flagged" /\ run[v].analysis.score = 75
    /\ run[v].analysis.flags =
         {"very_short_duration", "low_resolution", "high_frame_rate",
          "automatic_detection"}

\* ----------------------------------------------------------- register
\* The workspaces that exist before any registration, and the one invite:
\* code c1 invites e1 to t1 as viewer.
TenantName(t) == IF t = "t1" THEN "n1" ELSE "n2"
InviteOf(c) == [email |-> "e1", tenantId |-> "t1", role |-> "viewer"]
RegisterTenantIds == {"-", "t1", "t9"}

\* The Tenant names the unique index on name holds.
TakenNames == {TenantName(t) : t \in Tenants} \cup workspaces

RegisterRespond(e, code, error) ==
  [Respond("register", e, "-", code) EXCEPT !.error = error]

Fail(e, code, error) ==
  /\ reg' = [reg EXCEPT ![e].pc = "failed"]
  /\ resp' = RegisterRespond(e, code, error)

\* POST /auth/register arrives with a valid body; User.findOne is issued.
RegisterStart(e, tenantName, tenantId, inviteCode) ==
  /\ reg[e].pc \in {"idle", "done", "failed"}
  /\ reg' = [reg EXCEPT ![e] =
       [NoRegister EXCEPT !.pc = "findUser", !.tenantName = tenantName,
                          !.tenantId = tenantId, !.inviteCode = inviteCode]]
  /\ UNCHANGED <<videos, files, tenants, upl, run, del, viewInc, resp, io,
                 edits, process, accounts, workspaces, invites, events,
                 sockets>>

\* User.findOne({email}) answers; then the choice of the scenario.
RegisterFindUser(e, ok) ==
  /\ reg[e].pc = "findUser"
  /\ IF ~ok THEN Fail(e, 500, "Registration failed")
     ELSE IF \E a \in accounts : a.email = e
     THEN Fail(e, 400, "Email already registered")
     ELSE IF reg[e].tenantId # "-" /\ reg[e].inviteCode # "-"
     THEN reg' = [reg EXCEPT ![e].pc = "findTenant"] /\ resp' = resp
     ELSE IF reg[e].tenantName = "-"
     THEN Fail(e, 400, "tenantName is required for new workspace")
     ELSE /\ reg' = [reg EXCEPT ![e].pc = "saveUser", ![e].role = "admin"]
          /\ resp' = resp
  /\ UNCHANGED <<videos, files, tenants, upl, run, del, viewInc, io, edits,
                 process, accounts, workspaces, invites, events, sockets>>

\* Tenant.findById(tenantId) answers.
RegisterFindTenant(e, ok) ==
  /\ reg[e].pc = "findTenant"
  /\ IF ~ok THEN Fail(e, 500, "Registration failed")
     ELSE IF reg[e].tenantId \notin Tenants
     THEN Fail(e, 404, "Tenant not found")
     ELSE reg' = [reg EXCEPT ![e].pc = "findInvite"] /\ resp' = resp
  /\ UNCHANGED <<videos, files, tenants, upl, run, del, viewInc, io, edits,
                 process, accounts, workspaces, invites, events, sockets>>

\* Invite.findOne({email, tenantId, inviteCode, status: 'pending'}) answers;
\* expired: new Date() > invite.expiresAt.
RegisterFindInvite(e, expired, ok) ==
  /\ reg[e].pc = "findInvite"
  /\ LET c == reg[e].inviteCode IN
     IF ~ok THEN Fail(e, 500, "Registration failed")
     ELSE IF ~(/\ invites[c] = "pending" /\ InviteOf(c).email = e
               /\ InviteOf(c).tenantId = reg[e].tenantId)
     THEN Fail(e, 401, "Invalid or expired invite code")
     ELSE IF expired THEN Fail(e, 401, "Invite has expired")
     ELSE /\ reg' = [reg EXCEPT ![e].pc = "saveUser",
                                ![e].role = InviteOf(c).role]
          /\ resp' = resp
  /\ UNCHANGED <<videos, files, tenants, upl, run, del, viewInc, io, edits,
                 process, accounts, workspaces, invites, events, sockets>>

\* await user.save(): the insert, refused by the unique index on email.
RegisterSaveUser(e, ok) ==
  /\ reg[e].pc = "saveUser"
  /\ IF ~ok \/ \E a \in accounts : a.email = e
     THEN Fail(e, 500, "Registration failed") /\ accounts' = accounts
     ELSE /\ accounts' = accounts \cup
               {[email |-> e, role |-> reg[e].role,
                 tenantId |-> IF reg[e].inviteCode # "-" THEN reg[e].tenantId
                              ELSE reg[e].tenantName]}
          /\ reg' = [reg EXCEPT ![e].pc = "saveTenant", ![e].userSaved = TRUE]
          /\ resp' = resp
  /\ UNCHANGED <<videos, files, tenants, upl, run, del, viewInc, io, edits,
                 process, workspaces, invites, events, sockets>>

\* await tenant.save(): for a new workspace the insert, refused by the
\* unique index on name, then the 201; for an invited user the document is
\* unmodified and the request goes on to the invite.
RegisterSaveTenant(e, ok) ==
  /\ reg[e].pc = "saveTenant"
  /\ IF reg[e].inviteCode # "-"
     THEN /\ reg' = [reg EXCEPT ![e].pc = "acceptInvite"]
          /\ UNCHANGED <<workspaces, resp>>
     ELSE IF ~ok \/ reg[e].tenantName \in TakenNames
     THEN Fail(e, 500, "Registration failed") /\ workspaces' = workspaces
     ELSE /\ workspaces' = workspaces \cup {reg[e].tenantName}
          /\ reg' = [reg EXCEPT ![e].pc = "done"]
          /\ resp' = RegisterRespond(e, 201, "")
  /\ UNCHANGED <<videos, files, tenants, upl, run, del, viewInc, io, edits,
                 process, accounts, invites, events, sockets>>

\* Invite.findOneAndUpdate({email, tenantId, inviteCode}, accepted), then
\* the 201.
RegisterAcceptInvite(e, ok) ==
  /\ reg[e].pc = "acceptInvite"
  /\ IF ok
     THEN /\ invites' = [invites EXCEPT ![reg[e].inviteCode] = "accepted"]
          /\ reg' = [reg EXCEPT ![e].pc = "done"]
          /\ resp' = RegisterRespond(e, 201, "")
     ELSE Fail(e, 500, "Registration failed") /\ invites' = invites
  /\ UNCHANGED <<videos, files, tenants, upl, run, del, viewInc, io, edits,
                 process, accounts, workspaces, events, sockets>>

\* The invite c1 is pending; nobody has registered.
RegisterInit ==
  /\ videos = [v \in Videos |-> Absent("none")]
  /\ files = [v \in Videos |-> FALSE]
  /\ tenants = [t \in Tenants |-> 0]
  /\ upl = [v \in Videos |-> [pc |-> "idle", user |-> "-"]]
  /\ run = [v \in Videos |-> NoRun]
  /\ del = [v \in Videos |-> <<>>]
  /\ viewInc = [v \in Videos |-> 0]
  /\ resp = NoResp
  /\ io = startServer
  /\ edits = [v \in Videos |-> <<>>]
  /\ process = "running"
  /\ accounts = {}
  /\ workspaces = {}
  /\ invites = [c \in InviteCodes |-> "pending"]
  /\ reg = [e \in Emails |-> NoRegister]
  /\ events = [v \in Videos |-> <<>>]
  /\ sockets = [s \in Sockets |-> NewSocket]

RegisterNext ==
  \/ \E e \in Emails, tenantName \in TenantNames \cup {"-"},
         tenantId \in RegisterTenantIds, inviteCode \in InviteCodes \cup {"-"} :
        RegisterStart(e, tenantName, tenantId, inviteCode)
  \/ \E e \in Emails, ok \in BOOLEAN : RegisterFindUser(e, ok)
  \/ \E e \in Emails, ok \in BOOLEAN : RegisterFindTenant(e, ok)
  \/ \E e \in Emails, expired \in BOOLEAN, ok \in BOOLEAN :
        RegisterFindInvite(e, expired, ok)
  \/ \E e \in Emails, ok \in BOOLEAN : RegisterSaveUser(e, ok)
  \/ \E e \in Emails, ok \in BOOLEAN : RegisterSaveTenant(e, ok)
  \/ \E e \in Emails, ok \in BOOLEAN : RegisterAcceptInvite(e, ok)

RegisterSpec == RegisterInit /\ [][RegisterNext]_vars

\* C30: a register request that is answered with an error has stored
\* nothing: the User of the request was not saved (so its email does not
\* block a later registration), no Tenant was added, and the invite it named
\* is still pending if it was.
C30_FailedRegisterStoresNothing ==
  [][\A e \in Emails :
       (Answers({"register"}) /\ resp'.user = e /\ resp'.code # 201)
         => /\ ~reg[e].userSaved
            /\ UNCHANGED <<accounts, workspaces, invites>>]_vars

====
